---- MODULE Spec2Model ----
(***************************************************************************)
(* Out-of-bounds mutation generator of the bytecode verifier's test        *)
(* support (invalid_mutations/src/bounds.rs) together with the IndexKind   *)
(* registry of the vm crate (vm/src/lib.rs).                               *)
(*                                                                         *)
(* A run is: the proptest driver generates a batch of OutOfBoundsMutation  *)
(* values (strategy), ApplyOutOfBoundsContext::new is constructed over a   *)
(* module and the batch, and apply consumes the context: it groups the     *)
(* batch by (src_kind, dst_kind), calls apply_one for every group in the   *)
(* BTreeMap's key order and returns the module and the expected errors.    *)
(*                                                                         *)
(* Table positions are 0-based as in the source; a TLA+ sequence s holds   *)
(* the entry of position i at s[i + 1].                                    *)
(***************************************************************************)
EXTENDS Integers, Sequences, FiniteSets, TLC

VARIABLES
    pc,            \* "test", "gen", "constructed", "applying", "done", "panicked"
    sanity,        \* what the unit test pointer_kind_sanity checked, and whether it passed
    input,         \* the CompiledModule handed to new (kept to compare with the result)
    module,        \* ApplyOutOfBoundsContext.module
    mutations,     \* ApplyOutOfBoundsContext.mutations (the batch)
    type_sig_structs,      \* the three caches computed by new
    function_sig_structs,
    locals_sig_structs,
    mutation_map,  \* apply: the groups not yet handed to apply_one, in key order
    results,       \* apply: the errors collected so far
    calls,         \* history: one record per apply_one call (group, counts, picked indices)
    panic          \* "" or the message of the panic that ended the run

vars == <<pc, sanity, input, module, mutations, type_sig_structs, function_sig_structs,
          locals_sig_structs, mutation_map, results, calls, panic>>

-----------------------------------------------------------------------------
(* Bounds of the model *)

\* Entries of the largest handle/definition table of a generated module are MaxTable + 2.
MaxTable == 2
\* Longest batch of the batch specification.
MaxBatch == 2
\* A proptest Index is one of SelDen equally spaced points of [0, 1).
SelDen == 3

(* Program constants *)

\* offset is drawn from 0..16 (exclusive)
OffsetLimit == 16
\* TableIndex is a 16-bit unsigned integer: the cast `as TableIndex` keeps 16 bits
TableIndexBits == 16

TableIndexModulus == 2 ^ TableIndexBits
TableIndexMax == TableIndexModulus - 1

-----------------------------------------------------------------------------
(* vm/src/lib.rs: the index kinds *)

\* enum IndexKind, in declaration order (the derived Ord is this order)
IndexKindDecl ==
    << "ModuleHandle", "StructHandle", "FunctionHandle", "StructDefinition",
       "FieldDefinition", "FunctionDefinition", "TypeSignature", "FunctionSignature",
       "LocalsSignature", "StringPool", "ByteArrayPool", "AddressPool", "LocalPool",
       "CodeDefinition", "TypeParameter" >>

IndexKind == { IndexKindDecl[i] : i \in DOMAIN IndexKindDecl }

\* the discriminant of a kind: its position in the declaration
KindOrd(kind) == CHOOSE i \in DOMAIN IndexKindDecl : IndexKindDecl[i] = kind

\* IndexKind::variants()
variants ==
    << "ModuleHandle", "StructHandle", "FunctionHandle", "StructDefinition",
       "FieldDefinition", "FunctionDefinition", "TypeSignature", "FunctionSignature",
       "LocalsSignature", "StringPool", "AddressPool", "LocalPool", "CodeDefinition",
       "TypeParameter" >>

-----------------------------------------------------------------------------
(* bounds.rs: the pointer model *)

One(k) == [card |-> "One", kind |-> k]
Optional(k) == [card |-> "Optional", kind |-> k]
Star(k) == [card |-> "Star", kind |-> k]

\* mutant: the byte array pool is given a pointer out, as the string pool's twin
pointers_from_with_pool(src_kind) ==
    CASE src_kind = "ModuleHandle" -> << One("AddressPool"), One("StringPool") >>
      [] src_kind = "StructHandle" -> << One("ModuleHandle"), One("StringPool") >>
      [] src_kind = "FunctionHandle" ->
            << One("ModuleHandle"), One("StringPool"), One("FunctionSignature") >>
      [] src_kind = "StructDefinition" -> << One("StructHandle"), One("FieldDefinition") >>
      [] src_kind = "FieldDefinition" ->
            << One("StructHandle"), One("StringPool"), One("TypeSignature") >>
      [] src_kind = "FunctionDefinition" -> << One("FunctionHandle"), One("LocalsSignature") >>
      [] src_kind = "TypeSignature" -> << Optional("StructHandle") >>
      [] src_kind = "FunctionSignature" -> << Star("StructHandle") >>
      [] src_kind = "LocalsSignature" -> << Star("StructHandle") >>
      [] src_kind = "ByteArrayPool" -> << One("StringPool") >>
      [] OTHER -> << >>

\* PointerKind::pointers_from
pointers_from(src_kind) ==
    CASE src_kind = "ModuleHandle" -> << One("AddressPool"), One("StringPool") >>
      [] src_kind = "StructHandle" -> << One("ModuleHandle"), One("StringPool") >>
      [] src_kind = "FunctionHandle" ->
            << One("ModuleHandle"), One("StringPool"), One("FunctionSignature") >>
      [] src_kind = "StructDefinition" -> << One("StructHandle"), One("FieldDefinition") >>
      [] src_kind = "FieldDefinition" ->
            << One("StructHandle"), One("StringPool"), One("TypeSignature") >>
      [] src_kind = "FunctionDefinition" -> << One("FunctionHandle"), One("LocalsSignature") >>
      [] src_kind = "TypeSignature" -> << Optional("StructHandle") >>
      [] src_kind = "FunctionSignature" -> << Star("StructHandle") >>
      [] src_kind = "LocalsSignature" -> << Star("StructHandle") >>
      [] src_kind = "StringPool" -> << >>
      [] src_kind = "ByteArrayPool" -> << >>
      [] src_kind = "AddressPool" -> << >>
      [] src_kind = "LocalPool" -> << >>
      [] src_kind = "CodeDefinition" -> << >>
      [] src_kind = "TypeParameter" -> << >>

\* PointerKind::to_index_kind
to_index_kind(pointer) == pointer.kind

VALID_POINTER_SRCS ==
    << "ModuleHandle", "StructHandle", "FunctionHandle", "StructDefinition",
       "FieldDefinition", "FunctionDefinition", "TypeSignature", "FunctionSignature",
       "LocalsSignature" >>

\* the (source kind, destination kind) pairs of the pointer model
PointerPairs ==
    UNION { { <<s, to_index_kind(pointers_from(s)[i])>> : i \in DOMAIN pointers_from(s) } :
            s \in IndexKind }

-----------------------------------------------------------------------------
(* The module (vm::file_format), as far as the mutations read and write it *)

Min(a, b) == IF a < b THEN a ELSE b

\* SignatureToken: a primitive, a struct instantiation, or a reference to a token
BoolToken == [tag |-> "Bool"]
StructToken(sh) == [tag |-> "Struct", sh |-> sh]
ReferenceToken(inner) == [tag |-> "Reference", to |-> inner]

\* SignatureTokenView::struct_handle: Some for a struct and for a reference to a struct
HasStructHandle(token) ==
    \/ token.tag = "Struct"
    \/ token.tag = "Reference" /\ token.to.tag = "Struct"

\* SignatureToken::debug_set_sh_idx, for a token that holds a struct handle
debug_set_sh_idx(token, sh_idx) ==
    IF token.tag = "Struct"
    THEN [token EXCEPT !.sh = sh_idx]
    ELSE [token EXCEPT !.to = [@ EXCEPT !.sh = sh_idx]]

\* the struct handle index a token embeds
TokenStructHandle(token) == IF token.tag = "Struct" THEN token.sh ELSE token.to.sh

Native == [tag |-> "Native"]
Declared(field_count, fields) ==
    [tag |-> "Declared", field_count |-> field_count, fields |-> fields]

\* A table (a Vec of entries) of len entries: the entry of position i is at[i] when the
\* position is listed in `at`, and the table's `fill` entry otherwise.
Table(rows, fill) ==
    [len |-> Len(rows), at |-> [i \in 0..(Len(rows) - 1) |-> rows[i + 1]], fill |-> fill]

\* table[i]
At(table, i) == IF i \in DOMAIN table.at THEN table.at[i] ELSE table.fill

\* table[i] = entry
Put(table, i, entry) ==
    IF entry = At(table, i) THEN table
    ELSE [table EXCEPT !.at = [j \in (DOMAIN @) \cup { i } |-> IF j = i THEN entry ELSE @[j]]]

\* the positions a table lists, in ascending order
RECURSIVE Ascending(_)
Ascending(set) ==
    IF set = {} THEN << >>
    ELSE LET least == CHOOSE x \in set : \A y \in set : x <= y
         IN  << least >> \o Ascending(set \ { least })

Tabulate(n, F(_)) == [i \in 1..n |-> F(i - 1)]

\* A well-formed module of size parameter n >= 1 (every reference is in bounds), with
\* the given pool sizes. Tables that point at each other have different lengths.
SizedModule(n, addresses, strings) ==
    LET sh(i) == i % n
        sigToken(i) == CASE i % 3 = 0 -> BoolToken
                         [] i % 3 = 1 -> StructToken(sh(i))
                         [] OTHER -> ReferenceToken(StructToken(sh(i)))
    IN  [ module_handles |-> Table(
            Tabulate(n + 1, LAMBDA i : [address |-> i % addresses, name |-> i % strings]),
            [address |-> 0, name |-> 0]),
          struct_handles |-> Table(
            Tabulate(n, LAMBDA i : [module |-> i % (n + 1), name |-> (i + 1) % strings]),
            [module |-> 0, name |-> 0]),
          function_handles |-> Table(
            Tabulate(n + 2, LAMBDA i : [module |-> i % (n + 1), name |-> i % strings,
                                        signature |-> i % (n + 1)]),
            [module |-> 0, name |-> 0, signature |-> 0]),
          struct_defs |-> Table(
            Tabulate(n + 1, LAMBDA i :
                [struct_handle |-> sh(i),
                 field_information |->
                    CASE i % 3 = 0 -> Declared(2, 1)
                      [] i % 3 = 1 -> Native
                      [] OTHER -> Declared(1, 0)]),
            [struct_handle |-> 0, field_information |-> Native]),
          field_defs |-> Table(
            Tabulate(n + 2, LAMBDA i : [struct_ |-> sh(i), name |-> i % strings,
                                        signature |-> i % (n + 1)]),
            [struct_ |-> 0, name |-> 0, signature |-> 0]),
          function_defs |-> Table(
            Tabulate(n + 1, LAMBDA i : [function |-> i, locals |-> i % n]),
            [function |-> 0, locals |-> 0]),
          type_signatures |-> Table(Tabulate(n + 1, sigToken), BoolToken),
          function_signatures |-> Table(
            Tabulate(n + 1, LAMBDA i :
                CASE i % 3 = 0 -> [return_types |-> << BoolToken >>,
                                   arg_types |-> << StructToken(sh(1)), BoolToken >>]
                  [] i % 3 = 1 -> [return_types |-> << BoolToken, BoolToken,
                                                       ReferenceToken(StructToken(sh(1))) >>,
                                   arg_types |-> << StructToken(sh(0)) >>]
                  [] OTHER -> [return_types |-> << StructToken(sh(0)) >>,
                               arg_types |-> << >>]),
            [return_types |-> << >>, arg_types |-> << >>]),
          locals_signatures |-> Table(
            Tabulate(n, LAMBDA i :
                CASE i % 3 = 0 -> << BoolToken, StructToken(sh(0)), StructToken(sh(1)) >>
                  [] i % 3 = 1 -> << ReferenceToken(StructToken(sh(1))) >>
                  [] OTHER -> << BoolToken >>),
            << >>),
          string_pool |-> strings,
          byte_array_pool |-> 0,
          address_pool |-> addresses ]

\* The module with no handle, definition or signature at all.
EmptyModule(addresses, strings) ==
    [ module_handles |-> Table(<< >>, [address |-> 0, name |-> 0]),
      struct_handles |-> Table(<< >>, [module |-> 0, name |-> 0]),
      function_handles |-> Table(<< >>, [module |-> 0, name |-> 0, signature |-> 0]),
      struct_defs |-> Table(<< >>, [struct_handle |-> 0, field_information |-> Native]),
      field_defs |-> Table(<< >>, [struct_ |-> 0, name |-> 0, signature |-> 0]),
      function_defs |-> Table(<< >>, [function |-> 0, locals |-> 0]),
      type_signatures |-> Table(<< >>, BoolToken),
      function_signatures |-> Table(<< >>, [return_types |-> << >>, arg_types |-> << >>]),
      locals_signatures |-> Table(<< >>, << >>),
      string_pool |-> strings, byte_array_pool |-> 0, address_pool |-> addresses ]

\* the module m with the table (or pool) of `kind` grown to `count` entries
Widened(m, kind, count) ==
    CASE kind = "ModuleHandle" -> [m EXCEPT !.module_handles.len = count]
      [] kind = "StructHandle" -> [m EXCEPT !.struct_handles.len = count]
      [] kind = "FunctionHandle" -> [m EXCEPT !.function_handles.len = count]
      [] kind = "StructDefinition" -> [m EXCEPT !.struct_defs.len = count]
      [] kind = "FieldDefinition" -> [m EXCEPT !.field_defs.len = count]
      [] kind = "FunctionDefinition" -> [m EXCEPT !.function_defs.len = count]
      [] kind = "TypeSignature" -> [m EXCEPT !.type_signatures.len = count]
      [] kind = "FunctionSignature" -> [m EXCEPT !.function_signatures.len = count]
      [] kind = "LocalsSignature" -> [m EXCEPT !.locals_signatures.len = count]
      [] kind = "StringPool" -> [m EXCEPT !.string_pool = count]
      [] kind = "AddressPool" -> [m EXCEPT !.address_pool = count]

\* the kinds some pointer of the pointer model points at
DestinationKinds == { p[2] : p \in PointerPairs }

\* Table sizes at the end of the 16-bit index range: the largest one every offset stays
\* representable for, and the largest one there is.
WideCounts == { TableIndexMax - (OffsetLimit - 1), TableIndexMax }

\* A well-formed module whose signatures hold primitive tokens only: the signature
\* tables have entries, none of which embeds a struct handle.
PrimitiveModule(n, addresses, strings) ==
    [ SizedModule(n, addresses, strings) EXCEPT
        !.type_signatures = Table(Tabulate(n + 1, LAMBDA i : BoolToken), BoolToken),
        !.function_signatures = Table(
            Tabulate(n + 1, LAMBDA i : [return_types |-> << BoolToken >>,
                                        arg_types |-> << BoolToken, BoolToken >>]),
            [return_types |-> << >>, arg_types |-> << >>]),
        !.locals_signatures = Table(Tabulate(n, LAMBDA i : << BoolToken >>), << >>) ]

\* The modules of the batch specifications: small tables and pools.
SmallModules ==
    { EmptyModule(1, 2), PrimitiveModule(1, 1, 2) }
    \cup { SizedModule(n, 1, 2) : n \in 1..MaxTable }

\* The modules of the main specification: the small ones, and each sized one with one of
\* its destination tables grown to the end of the index range.
Modules ==
    SmallModules
    \cup { Widened(SizedModule(n, 1, 2), kind, count) :
             n \in 1..MaxTable, kind \in DestinationKinds, count \in WideCounts }

\* CompiledModuleMut::kind_count; the function-local kinds have no module table
HasCount(kind) == kind \notin { "LocalPool", "CodeDefinition", "TypeParameter" }

kind_count(m, kind) ==
    CASE kind = "ModuleHandle" -> m.module_handles.len
      [] kind = "StructHandle" -> m.struct_handles.len
      [] kind = "FunctionHandle" -> m.function_handles.len
      [] kind = "StructDefinition" -> m.struct_defs.len
      [] kind = "FieldDefinition" -> m.field_defs.len
      [] kind = "FunctionDefinition" -> m.function_defs.len
      [] kind = "TypeSignature" -> m.type_signatures.len
      [] kind = "FunctionSignature" -> m.function_signatures.len
      [] kind = "LocalsSignature" -> m.locals_signatures.len
      [] kind = "StringPool" -> m.string_pool
      [] kind = "ByteArrayPool" -> m.byte_array_pool
      [] kind = "AddressPool" -> m.address_pool

-----------------------------------------------------------------------------
(* proptest's sample::Index and proptest_helpers::pick_slice_idxs *)

\* the values an Index can take in the model
PropIndex == 0..(SelDen - 1)

\* Index::index(size): the point v / SelDen of [0, 1) scaled to 0..size (exclusive)
PropIndexIndex(v, size) == (v * size) \div SelDen

\* Index::get(slice)
PropIndexGet(v, slice) == slice[PropIndexIndex(v, Len(slice)) + 1]

RECURSIVE PickLoop(_, _, _, _, _)
\* iteration iter_idx of the sampling loop (Floyd's algorithm without replacement)
PickLoop(max, indexes, to_select, iter_idx, selected) ==
    IF iter_idx >= to_select THEN selected
    ELSE LET choice == (max - to_select) + iter_idx
             idx == PropIndexIndex(indexes[iter_idx + 1], choice + 1)
         IN  PickLoop(max, indexes, to_select, iter_idx + 1,
                      IF idx \in selected THEN selected \cup { choice }
                                          ELSE selected \cup { idx })

\* pick_slice_idxs(max, indexes): min(max, len) distinct positions below max
pick_slice_idxs(max, indexes) ==
    Ascending(PickLoop(max, indexes, Min(Len(indexes), max), 0, {}))

-----------------------------------------------------------------------------
(* bounds.rs: the mutation and its generator *)

OutOfBoundsMutation(src_kind, src_idx, dst_kind, offset) ==
    [src_kind |-> src_kind, src_idx |-> src_idx, dst_kind |-> dst_kind, offset |-> offset]

\* OutOfBoundsMutation::dst_kind
dst_kind_of(src_kind, dst_kind_idx) ==
    to_index_kind(PropIndexGet(dst_kind_idx, pointers_from(src_kind)))

\* OutOfBoundsMutation::src_kind_strategy: the kinds sample::select can return
src_kind_strategy == { VALID_POINTER_SRCS[i] : i \in DOMAIN VALID_POINTER_SRCS }

-----------------------------------------------------------------------------
(* bounds.rs: the caches of ApplyOutOfBoundsContext::new *)

RECURSIVE Flatten(_)
Flatten(seqs) == IF seqs = << >> THEN << >> ELSE Head(seqs) \o Flatten(Tail(seqs))

RECURSIVE StructPositions(_, _)
\* the positions (from `from` on) of the tokens that hold a struct handle
StructPositions(tokens, from) ==
    IF from >= Len(tokens) THEN << >>
    ELSE (IF HasStructHandle(tokens[from + 1]) THEN << from >> ELSE << >>)
         \o StructPositions(tokens, from + 1)

\* ApplyOutOfBoundsContext::find_struct_tokens
find_struct_tokens(tokens, map_fn(_)) ==
    LET positions == StructPositions(tokens, 0)
    IN  [k \in DOMAIN positions |-> map_fn(positions[k])]

ReturnType(sig, pos) == [tag |-> "ReturnType", sig |-> sig, pos |-> pos]
ArgType(sig, pos) == [tag |-> "ArgType", sig |-> sig, pos |-> pos]

\* the listed entries of a table in table order, each with its position; the entries
\* a signature table does not list hold no struct handle and yield nothing in a scan
Enumerate(table) ==
    LET order == Ascending(DOMAIN table.at)
    IN  [k \in DOMAIN order |-> [idx |-> order[k], entry |-> table.at[order[k]]]]

\* ApplyOutOfBoundsContext::type_sig_structs
type_sig_structs_of(m) ==
    LET sigs == Enumerate(m.type_signatures)
    IN  Flatten([k \in DOMAIN sigs |->
            IF HasStructHandle(sigs[k].entry) THEN << sigs[k].idx >> ELSE << >>])

\* the return-type entries of function_sig_structs
return_tokens_of(sigs) ==
    Flatten([k \in DOMAIN sigs |->
        find_struct_tokens(sigs[k].entry.return_types,
                           LAMBDA pos : ReturnType(sigs[k].idx, pos))])

\* the argument entries of function_sig_structs
arg_tokens_of(sigs) ==
    Flatten([k \in DOMAIN sigs |->
        find_struct_tokens(sigs[k].entry.arg_types,
                           LAMBDA pos : ArgType(sigs[k].idx, pos))])

\* ApplyOutOfBoundsContext::function_sig_structs
function_sig_structs_of(m) ==
    return_tokens_of(Enumerate(m.function_signatures))
        \o arg_tokens_of(Enumerate(m.function_signatures))

\* ApplyOutOfBoundsContext::locals_sig_structs
locals_sig_structs_of(m) ==
    LET sigs == Enumerate(m.locals_signatures)
    IN  Flatten([k \in DOMAIN sigs |->
            find_struct_tokens(sigs[k].entry, LAMBDA pos : [sig |-> sigs[k].idx, pos |-> pos])])

-----------------------------------------------------------------------------
(* bounds.rs: ApplyOutOfBoundsContext::set_index *)

IndexOutOfBounds(kind, len, idx) ==
    [tag |-> "IndexOutOfBounds", kind |-> kind, len |-> len, idx |-> idx]
RangeOutOfBounds(kind, len, start, end) ==
    [tag |-> "RangeOutOfBounds", kind |-> kind, len |-> len, start |-> start, end |-> end]
VerificationError(kind, idx, err) == [kind |-> kind, idx |-> idx, err |-> err]

\* what a call of set_index leaves: a panic, or the module and Some/None error
Panicked(msg) == [panic |-> msg]
Returned(m, errs) == [panic |-> "", module |-> m, errs |-> errs]

InvalidPointerKind == "Invalid pointer kind"
IndexPanic == "index out of bounds"
OverflowPanic == "arithmetic overflow"
CountPanic == "invalid kind for count"

\* mutant: the last valid index plus the offset
new_idx_from_last(dst_count, offset) == (dst_count - 1 + offset) % TableIndexModulus

\* `(dst_count + mutation.offset) as TableIndex`: the sum, truncated to the index width
new_idx_of(dst_count, offset) == (dst_count + offset) % TableIndexModulus

\* the default `err` of set_index
default_err(dst_kind, dst_count, new_idx) == IndexOutOfBounds(dst_kind, dst_count, new_idx)

\* `let end_idx = new_idx + 1`, a TableIndex sum that wraps where it is not checked
end_idx_of(new_idx) == (new_idx + 1) % TableIndexModulus

\* `let first_new_idx = end_idx - field_count`, likewise
first_new_idx_of(end_idx, field_count) == (end_idx - field_count) % TableIndexModulus

\* whether the two operations above overflow the TableIndex width
range_overflows(new_idx, field_count) ==
    \/ new_idx + 1 > TableIndexMax
    \/ end_idx_of(new_idx) - field_count < 0

\* mutant: the new range is one field long, whatever the struct declared
set_declared_range_of_one(m, overflow_checks, src_idx, dst_kind, dst_count, new_idx) ==
    LET end_idx == end_idx_of(new_idx)
        first_new_idx == first_new_idx_of(end_idx, 1)
    IN  IF overflow_checks /\ range_overflows(new_idx, 1)
        THEN Panicked(OverflowPanic)
        ELSE Returned(
                [m EXCEPT !.struct_defs = Put(@, src_idx,
                    [At(@, src_idx) EXCEPT
                        !.field_information = Declared(1, first_new_idx)])],
                << VerificationError("StructDefinition", src_idx,
                        RangeOutOfBounds(dst_kind, dst_count, first_new_idx, end_idx)) >>)

\* the arm (StructDefinition, FieldDefinition) for declared fields; overflow_checks is
\* the build's setting (arithmetic overflow panics with it and wraps without it)
set_declared_range(m, overflow_checks, src_idx, dst_kind, dst_count, new_idx) ==
    LET field_count == At(m.struct_defs, src_idx).field_information.field_count
        end_idx == end_idx_of(new_idx)
        first_new_idx == first_new_idx_of(end_idx, field_count)
    IN  IF overflow_checks /\ range_overflows(new_idx, field_count)
        THEN Panicked(OverflowPanic)
        ELSE Returned(
                [m EXCEPT !.struct_defs = Put(@, src_idx,
                    [At(@, src_idx) EXCEPT
                        !.field_information = Declared(field_count, first_new_idx)])],
                << VerificationError("StructDefinition", src_idx,
                        RangeOutOfBounds(dst_kind, dst_count, first_new_idx, end_idx)) >>)

\* mutant: a native struct definition falls through to the default error
set_field_range_no_skip(m, overflow_checks, src_idx, dst_kind, dst_count, new_idx) ==
    IF At(m.struct_defs, src_idx).field_information.tag = "Native"
    THEN Returned(m, << VerificationError("StructDefinition", src_idx,
                            IndexOutOfBounds(dst_kind, dst_count, new_idx)) >>)
    ELSE set_declared_range(m, overflow_checks, src_idx, dst_kind, dst_count, new_idx)

\* the arm (StructDefinition, FieldDefinition): `return None` for a native struct
set_field_range(m, overflow_checks, src_idx, dst_kind, dst_count, new_idx) ==
    IF At(m.struct_defs, src_idx).field_information.tag = "Native"
    THEN Returned(m, << >>)
    ELSE set_declared_range(m, overflow_checks, src_idx, dst_kind, dst_count, new_idx)

\* the arm (FunctionSignature, StructHandle)
set_function_sig_struct(m, entry, new_idx) ==
    IF entry.tag = "ReturnType"
    THEN [m EXCEPT !.function_signatures = Put(@, entry.sig,
            [At(@, entry.sig) EXCEPT
                !.return_types[entry.pos + 1] = debug_set_sh_idx(@, new_idx)])]
    ELSE [m EXCEPT !.function_signatures = Put(@, entry.sig,
            [At(@, entry.sig) EXCEPT
                !.arg_types[entry.pos + 1] = debug_set_sh_idx(@, new_idx)])]

\* mutant: the error keeps the index that was looked up in the cache
src_idx_kept(src_idx, actual_src_idx) == src_idx

\* `src_idx = actual_src_idx.into_index()`: the index a signature arm reports
src_idx_reported(src_idx, actual_src_idx) == actual_src_idx

\* the table a source kind's `self.module.<table>[src_idx]` (or cache[src_idx]) indexes
indexed_len(m, caches, src_kind) ==
    CASE src_kind = "TypeSignature" -> Len(caches.type_sig_structs)
      [] src_kind = "FunctionSignature" -> Len(caches.function_sig_structs)
      [] src_kind = "LocalsSignature" -> Len(caches.locals_sig_structs)
      [] OTHER -> kind_count(m, src_kind)

\* mutant: the match lacks the arm of (LocalsSignature, StructHandle)
HandledPairsLackingLocals ==
    { << "ModuleHandle", "AddressPool" >>, << "ModuleHandle", "StringPool" >>,
      << "StructHandle", "ModuleHandle" >>, << "StructHandle", "StringPool" >>,
      << "FunctionHandle", "ModuleHandle" >>, << "FunctionHandle", "StringPool" >>,
      << "FunctionHandle", "FunctionSignature" >>,
      << "StructDefinition", "StructHandle" >>,
      << "StructDefinition", "FieldDefinition" >>,
      << "FieldDefinition", "StructHandle" >>, << "FieldDefinition", "StringPool" >>,
      << "FieldDefinition", "TypeSignature" >>,
      << "FunctionDefinition", "FunctionHandle" >>,
      << "FunctionDefinition", "LocalsSignature" >>,
      << "TypeSignature", "StructHandle" >>,
      << "FunctionSignature", "StructHandle" >> }

\* the (src_kind, dst_kind) arms of the match in set_index, before the fatal `_` arm
HandledPairs ==
    { << "ModuleHandle", "AddressPool" >>, << "ModuleHandle", "StringPool" >>,
      << "StructHandle", "ModuleHandle" >>, << "StructHandle", "StringPool" >>,
      << "FunctionHandle", "ModuleHandle" >>, << "FunctionHandle", "StringPool" >>,
      << "FunctionHandle", "FunctionSignature" >>,
      << "StructDefinition", "StructHandle" >>,
      << "StructDefinition", "FieldDefinition" >>,
      << "FieldDefinition", "StructHandle" >>, << "FieldDefinition", "StringPool" >>,
      << "FieldDefinition", "TypeSignature" >>,
      << "FunctionDefinition", "FunctionHandle" >>,
      << "FunctionDefinition", "LocalsSignature" >>,
      << "TypeSignature", "StructHandle" >>,
      << "FunctionSignature", "StructHandle" >>,
      << "LocalsSignature", "StructHandle" >> }

set_index(m, caches, overflow_checks, src_kind, src_idx, dst_kind, dst_count, new_idx) ==
    LET pair == << src_kind, dst_kind >>
        at == src_idx + 1
        some(m2, idx) ==
            Returned(m2, << VerificationError(src_kind, idx,
                                              default_err(dst_kind, dst_count, new_idx)) >>)
    IN
    IF pair \notin HandledPairs
    THEN Panicked(InvalidPointerKind)
    ELSE IF src_idx >= indexed_len(m, caches, src_kind) THEN Panicked(IndexPanic)
    ELSE
    CASE pair = << "ModuleHandle", "AddressPool" >> ->
            some([m EXCEPT !.module_handles = Put(@, src_idx,
                    [At(@, src_idx) EXCEPT !.address = new_idx])], src_idx)
      [] pair = << "ModuleHandle", "StringPool" >> ->
            some([m EXCEPT !.module_handles = Put(@, src_idx,
                    [At(@, src_idx) EXCEPT !.name = new_idx])], src_idx)
      [] pair = << "StructHandle", "ModuleHandle" >> ->
            some([m EXCEPT !.struct_handles = Put(@, src_idx,
                    [At(@, src_idx) EXCEPT !.module = new_idx])], src_idx)
      [] pair = << "StructHandle", "StringPool" >> ->
            some([m EXCEPT !.struct_handles = Put(@, src_idx,
                    [At(@, src_idx) EXCEPT !.name = new_idx])], src_idx)
      [] pair = << "FunctionHandle", "ModuleHandle" >> ->
            some([m EXCEPT !.function_handles = Put(@, src_idx,
                    [At(@, src_idx) EXCEPT !.module = new_idx])], src_idx)
      [] pair = << "FunctionHandle", "StringPool" >> ->
            some([m EXCEPT !.function_handles = Put(@, src_idx,
                    [At(@, src_idx) EXCEPT !.name = new_idx])], src_idx)
      [] pair = << "FunctionHandle", "FunctionSignature" >> ->
            some([m EXCEPT !.function_handles = Put(@, src_idx,
                    [At(@, src_idx) EXCEPT !.signature = new_idx])], src_idx)
      [] pair = << "StructDefinition", "StructHandle" >> ->
            some([m EXCEPT !.struct_defs = Put(@, src_idx,
                    [At(@, src_idx) EXCEPT !.struct_handle = new_idx])], src_idx)
      [] pair = << "StructDefinition", "FieldDefinition" >> ->
            set_field_range(m, overflow_checks, src_idx, dst_kind, dst_count, new_idx)
      [] pair = << "FieldDefinition", "StructHandle" >> ->
            some([m EXCEPT !.field_defs = Put(@, src_idx,
                    [At(@, src_idx) EXCEPT !.struct_ = new_idx])], src_idx)
      [] pair = << "FieldDefinition", "StringPool" >> ->
            some([m EXCEPT !.field_defs = Put(@, src_idx,
                    [At(@, src_idx) EXCEPT !.name = new_idx])], src_idx)
      [] pair = << "FieldDefinition", "TypeSignature" >> ->
            some([m EXCEPT !.field_defs = Put(@, src_idx,
                    [At(@, src_idx) EXCEPT !.signature = new_idx])], src_idx)
      [] pair = << "FunctionDefinition", "FunctionHandle" >> ->
            some([m EXCEPT !.function_defs = Put(@, src_idx,
                    [At(@, src_idx) EXCEPT !.function = new_idx])], src_idx)
      [] pair = << "FunctionDefinition", "LocalsSignature" >> ->
            some([m EXCEPT !.function_defs = Put(@, src_idx,
                    [At(@, src_idx) EXCEPT !.locals = new_idx])], src_idx)
      [] pair = << "TypeSignature", "StructHandle" >> ->
            LET actual == caches.type_sig_structs[at]
            IN  some([m EXCEPT !.type_signatures =
                        Put(@, actual, debug_set_sh_idx(At(@, actual), new_idx))],
                     src_idx_reported(src_idx, actual))
      [] pair = << "FunctionSignature", "StructHandle" >> ->
            LET entry == caches.function_sig_structs[at]
            IN  some(set_function_sig_struct(m, entry, new_idx),
                     src_idx_reported(src_idx, entry.sig))
      [] pair = << "LocalsSignature", "StructHandle" >> ->
            LET entry == caches.locals_sig_structs[at]
            IN  some([m EXCEPT !.locals_signatures = Put(@, entry.sig,
                        [At(@, entry.sig) EXCEPT
                            ![entry.pos + 1] = debug_set_sh_idx(@, new_idx)])],
                     src_idx_reported(src_idx, entry.sig))

-----------------------------------------------------------------------------
(* bounds.rs: ApplyOutOfBoundsContext::apply_one and apply *)

\* mutant: every source kind is counted by its table
src_count_by_table(m, caches, src_kind) == kind_count(m, src_kind)

\* the `src_count` of apply_one
src_count_of(m, caches, src_kind) ==
    CASE src_kind = "TypeSignature" -> Len(caches.type_sig_structs)
      [] src_kind = "FunctionSignature" -> Len(caches.function_sig_structs)
      [] src_kind = "LocalsSignature" -> Len(caches.locals_sig_structs)
      [] OTHER -> kind_count(m, src_kind)

\* the `dst_count` of apply_one
dst_count_of(m, dst_kind) == kind_count(m, dst_kind)

RECURSIVE ZipLoop(_, _, _, _, _, _, _, _, _)
\* mutations.iter().zip(to_mutate).filter_map(set_index).collect(), from pair k on
ZipLoop(m, caches, overflow_checks, src_kind, dst_kind, dst_count, muts, to_mutate, k) ==
    IF k > Min(Len(muts), Len(to_mutate)) THEN Returned(m, << >>)
    ELSE LET one == set_index(m, caches, overflow_checks, src_kind, to_mutate[k], dst_kind,
                              dst_count,
                              new_idx_of(dst_count, muts[k].offset))
         IN  IF one.panic # "" THEN one
             ELSE LET rest == ZipLoop(one.module, caches, overflow_checks, src_kind, dst_kind,
                                      dst_count, muts, to_mutate, k + 1)
                  IN  IF rest.panic # "" THEN rest
                      ELSE Returned(rest.module, one.errs \o rest.errs)

\* mutant: every mutation of the group is resolved on its own, to an index below
\* src_count, or to index 0 when src_count is 0
apply_one_every_mutation(m, caches, overflow_checks, src_kind, dst_kind, muts) ==
    IF ~ HasCount(src_kind) \/ ~ HasCount(dst_kind)
    THEN [ out |-> Panicked(CountPanic), src_count |-> 0, dst_count |-> 0,
           to_mutate |-> << >> ]
    ELSE LET src_count == src_count_of(m, caches, src_kind)
             dst_count == dst_count_of(m, dst_kind)
             to_mutate == [k \in DOMAIN muts |->
                              IF src_count = 0 THEN 0
                              ELSE PropIndexIndex(muts[k].src_idx, src_count)]
         IN  [ out |-> ZipLoop(m, caches, overflow_checks, src_kind, dst_kind, dst_count, muts,
                                to_mutate, 1),
               src_count |-> src_count, dst_count |-> dst_count, to_mutate |-> to_mutate ]

apply_one(m, caches, overflow_checks, src_kind, dst_kind, muts) ==
    IF ~ HasCount(src_kind) \/ ~ HasCount(dst_kind)
    THEN [ out |-> Panicked(CountPanic), src_count |-> 0, dst_count |-> 0,
           to_mutate |-> << >> ]
    ELSE LET src_count == src_count_of(m, caches, src_kind)
             dst_count == dst_count_of(m, dst_kind)
             to_mutate == pick_slice_idxs(src_count, [k \in DOMAIN muts |-> muts[k].src_idx])
         IN  [ out |-> ZipLoop(m, caches, overflow_checks, src_kind, dst_kind, dst_count, muts,
                                to_mutate, 1),
               src_count |-> src_count, dst_count |-> dst_count, to_mutate |-> to_mutate ]

\* BTreeMap key order: the derived Ord of (IndexKind, IndexKind)
KeyLess(a, b) ==
    \/ KindOrd(a[1]) < KindOrd(b[1])
    \/ a[1] = b[1] /\ KindOrd(a[2]) < KindOrd(b[2])

RECURSIVE SortedKeys(_)
SortedKeys(keys) ==
    IF keys = {} THEN << >>
    ELSE LET least == CHOOSE x \in keys : \A y \in keys \ { x } : KeyLess(x, y)
         IN  << least >> \o SortedKeys(keys \ { least })

KeyOf(mutation) == << mutation.src_kind, mutation.dst_kind >>

\* the mutation_map of apply: every key with its mutations in batch order
mutation_map_of(batch) ==
    LET keys == SortedKeys({ KeyOf(batch[k]) : k \in DOMAIN batch })
    IN  [g \in DOMAIN keys |->
            [ key |-> keys[g],
              mutations |-> SelectSeq(batch, LAMBDA mu : KeyOf(mu) = keys[g]) ]]

Caches ==
    [ type_sig_structs |-> type_sig_structs,
      function_sig_structs |-> function_sig_structs,
      locals_sig_structs |-> locals_sig_structs ]

-----------------------------------------------------------------------------
(* The actions *)

InitWith(modules) ==
    /\ pc = "test"
    /\ sanity = [checked |-> {}, passed |-> TRUE]
    /\ input \in modules
    /\ module = input
    /\ mutations = << >>
    /\ type_sig_structs = << >>
    /\ function_sig_structs = << >>
    /\ locals_sig_structs = << >>
    /\ mutation_map = << >>
    /\ results = << >>
    /\ calls = << >>
    /\ panic = ""

\* whether the assertion of pointer_kind_sanity holds of a variant
sanity_assertion(variant) ==
    IF \E i \in DOMAIN VALID_POINTER_SRCS : VALID_POINTER_SRCS[i] = variant
    THEN pointers_from(variant) # << >>
    ELSE pointers_from(variant) = << >>

\* test::pointer_kind_sanity: the loop over IndexKind::variants(), which the first
\* failing assertion ends
pointer_kind_sanity ==
    /\ pc = "test"
    /\ pc' = "gen"
    /\ LET failing == { i \in DOMAIN variants : ~ sanity_assertion(variants[i]) }
           last == IF failing = {} THEN Len(variants)
                   ELSE CHOOSE i \in failing : \A j \in failing : i <= j
       IN  sanity' = [checked |-> { variants[i] : i \in 1..last },
                      passed |-> failing = {}]
    /\ UNCHANGED << input, module, mutations, type_sig_structs, function_sig_structs,
                    locals_sig_structs, mutation_map, results, calls, panic >>

\* the driver draws one more OutOfBoundsMutation from OutOfBoundsMutation::strategy();
\* src_kinds is the part of src_kind_strategy's range a specification draws from
Generate(max_len, src_kinds, offsets) ==
    /\ pc = "gen"
    /\ Len(mutations) < max_len
    /\ \E src_kind \in src_kinds, src_idx \in PropIndex,
          dst_kind_idx \in PropIndex, offset \in offsets :
            mutations' = Append(mutations,
                OutOfBoundsMutation(src_kind, src_idx,
                                    dst_kind_of(src_kind, dst_kind_idx), offset))
    /\ UNCHANGED << pc, sanity, input, module, type_sig_structs, function_sig_structs,
                    locals_sig_structs, mutation_map, results, calls, panic >>

\* a mutation built field by field, without the generator: any pair of kinds
Construct(max_len, offsets) ==
    /\ pc = "gen"
    /\ Len(mutations) < max_len
    /\ \E src_kind \in IndexKind, src_idx \in PropIndex, dst_kind \in IndexKind,
          offset \in offsets :
            mutations' = Append(mutations,
                OutOfBoundsMutation(src_kind, src_idx, dst_kind, offset))
    /\ UNCHANGED << pc, sanity, input, module, type_sig_structs, function_sig_structs,
                    locals_sig_structs, mutation_map, results, calls, panic >>

\* mutant: the context is built over a default module instead of the one passed in
NewOverDefault ==
    /\ pc = "gen"
    /\ pc' = "constructed"
    /\ module' = EmptyModule(0, 0)
    /\ type_sig_structs' = type_sig_structs_of(input)
    /\ function_sig_structs' = function_sig_structs_of(input)
    /\ locals_sig_structs' = locals_sig_structs_of(input)
    /\ UNCHANGED << sanity, input, mutations, mutation_map, results, calls, panic >>

\* ApplyOutOfBoundsContext::new(module, mutations)
New ==
    /\ pc = "gen"
    /\ pc' = "constructed"
    /\ module' = input
    /\ type_sig_structs' = type_sig_structs_of(input)
    /\ function_sig_structs' = function_sig_structs_of(input)
    /\ locals_sig_structs' = locals_sig_structs_of(input)
    /\ UNCHANGED << sanity, input, mutations, mutation_map, results, calls, panic >>

\* apply, up to its loop over the groups: the batch is taken and partitioned
Apply ==
    /\ pc = "constructed"
    /\ pc' = "applying"
    /\ mutation_map' = mutation_map_of(mutations)
    /\ mutations' = << >>
    /\ results' = << >>
    /\ UNCHANGED << sanity, input, module, type_sig_structs, function_sig_structs,
                    locals_sig_structs, calls, panic >>

\* one iteration of apply's loop: results.extend(self.apply_one(src_kind, dst_kind, ..))
ApplyOne ==
    /\ pc = "applying"
    /\ mutation_map # << >>
    /\ \E overflow_checks \in BOOLEAN :
       LET group == Head(mutation_map)
           call == apply_one(module, Caches, overflow_checks, group.key[1], group.key[2],
                             group.mutations)
           record == [ src_kind |-> group.key[1], dst_kind |-> group.key[2],
                       mutations |-> group.mutations, before |-> module,
                       src_count |-> call.src_count, dst_count |-> call.dst_count,
                       to_mutate |-> call.to_mutate, out |-> call.out ]
       IN  /\ calls' = Append(calls, record)
           /\ mutation_map' = Tail(mutation_map)
           /\ IF call.out.panic # ""
              THEN /\ pc' = "panicked"
                   /\ panic' = call.out.panic
                   /\ UNCHANGED << module, results >>
              ELSE /\ module' = call.out.module
                   /\ results' = results \o call.out.errs
                   /\ UNCHANGED << pc, panic >>
    /\ UNCHANGED << sanity, input, mutations, type_sig_structs, function_sig_structs,
                    locals_sig_structs >>

\* apply returns (self.module, results)
Return ==
    /\ pc = "applying"
    /\ mutation_map = << >>
    /\ pc' = "done"
    /\ UNCHANGED << sanity, input, module, mutations, type_sig_structs,
                    function_sig_structs, locals_sig_structs, mutation_map, results, calls,
                    panic >>

\* every offset `0..16 as usize` can yield
Offsets == 0..(OffsetLimit - 1)

\* the smallest and the largest offset
EndOffsets == { 0, OffsetLimit - 1 }

\* Main specification: any module of Modules, at most one generated mutation, any offset.
GenerateOne == Generate(1, src_kind_strategy, Offsets)

Init == InitWith(Modules)

Next == pointer_kind_sanity \/ GenerateOne \/ New \/ Apply \/ ApplyOne \/ Return

Spec == Init /\ [][Next]_vars

\* Batch specification: a small module and a generated batch of up to MaxBatch mutations
\* that share their source kind, with the end offsets.
GenerateBatch ==
    Generate(MaxBatch,
             { k \in src_kind_strategy : \A i \in DOMAIN mutations : mutations[i].src_kind = k },
             EndOffsets)

InitBatch == InitWith(SmallModules)

NextBatch == pointer_kind_sanity \/ GenerateBatch \/ New \/ Apply \/ ApplyOne \/ Return

SpecBatch == InitBatch /\ [][NextBatch]_vars

\* Specification of hand-built mutations: a small module and one mutation of any pair.
ConstructOne == Construct(1, EndOffsets)

NextAny == pointer_kind_sanity \/ ConstructOne \/ New \/ Apply \/ ApplyOne \/ Return

SpecAny == InitBatch /\ [][NextAny]_vars

-----------------------------------------------------------------------------
(* What the properties read off a state *)

RangePair == << "StructDefinition", "FieldDefinition" >>

PairOf(call) == << call.src_kind, call.dst_kind >>

\* the source population of a kind: the eligible-source cache of a signature kind, the
\* table of any other kind
Population(kind) ==
    CASE kind = "TypeSignature" -> Len(type_sig_structs)
      [] kind = "FunctionSignature" -> Len(function_sig_structs)
      [] kind = "LocalsSignature" -> Len(locals_sig_structs)
      [] OTHER -> kind_count(input, kind)

\* the mutations of a call that were zipped with a picked index
Applied(call) == 1..Min(Len(call.mutations), Len(call.to_mutate))

\* the reference field of pair (src_kind, dst_kind) at resolved source index idx, read
\* from module m (for the range pair: the first field of the declared range)
FieldOf(m, src_kind, idx, dst_kind) ==
    LET pair == << src_kind, dst_kind >>
    IN  CASE pair = << "ModuleHandle", "AddressPool" >> -> At(m.module_handles, idx).address
          [] pair = << "ModuleHandle", "StringPool" >> -> At(m.module_handles, idx).name
          [] pair = << "StructHandle", "ModuleHandle" >> -> At(m.struct_handles, idx).module
          [] pair = << "StructHandle", "StringPool" >> -> At(m.struct_handles, idx).name
          [] pair = << "FunctionHandle", "ModuleHandle" >> ->
                At(m.function_handles, idx).module
          [] pair = << "FunctionHandle", "StringPool" >> -> At(m.function_handles, idx).name
          [] pair = << "FunctionHandle", "FunctionSignature" >> ->
                At(m.function_handles, idx).signature
          [] pair = << "StructDefinition", "StructHandle" >> ->
                At(m.struct_defs, idx).struct_handle
          [] pair = RangePair -> At(m.struct_defs, idx).field_information.fields
          [] pair = << "FieldDefinition", "StructHandle" >> -> At(m.field_defs, idx).struct_
          [] pair = << "FieldDefinition", "StringPool" >> -> At(m.field_defs, idx).name
          [] pair = << "FieldDefinition", "TypeSignature" >> ->
                At(m.field_defs, idx).signature
          [] pair = << "FunctionDefinition", "FunctionHandle" >> ->
                At(m.function_defs, idx).function
          [] pair = << "FunctionDefinition", "LocalsSignature" >> ->
                At(m.function_defs, idx).locals
          [] pair = << "TypeSignature", "StructHandle" >> ->
                TokenStructHandle(At(m.type_signatures, type_sig_structs[idx + 1]))
          [] pair = << "FunctionSignature", "StructHandle" >> ->
                LET entry == function_sig_structs[idx + 1]
                    sig == At(m.function_signatures, entry.sig)
                IN  TokenStructHandle(IF entry.tag = "ReturnType"
                                      THEN sig.return_types[entry.pos + 1]
                                      ELSE sig.arg_types[entry.pos + 1])
          [] pair = << "LocalsSignature", "StructHandle" >> ->
                LET entry == locals_sig_structs[idx + 1]
                IN  TokenStructHandle(At(m.locals_signatures, entry.sig)[entry.pos + 1])

\* apply has returned after a batch of exactly one mutation, whose source population
\* is not empty
SingleApplied ==
    /\ pc = "done"
    /\ Len(calls) = 1
    /\ Len(calls[1].mutations) = 1
    /\ Population(calls[1].src_kind) >= 1

-----------------------------------------------------------------------------
(* C1 *)

\* C1 as stated: after a batch of one mutation of any pointer-model pair with a non-empty
\* source population, destination count D and offset o, apply has returned exactly one
\* diagnostic, IndexOutOfBounds(destination kind, D, D + o), and the corrupted field
\* reads D + o.
C1_AsStated ==
    SingleApplied =>
        LET call == calls[1]
            D == kind_count(input, call.dst_kind)
            o == call.mutations[1].offset
        IN  /\ Len(results) = 1
            /\ results[1].err = IndexOutOfBounds(call.dst_kind, D, D + o)
            /\ FieldOf(module, call.src_kind, call.to_mutate[1], call.dst_kind) = D + o

\* C1, amended: after a batch of one mutation of a pointer-model pair other than
\* StructDefinition -> FieldDefinition, with a non-empty source population, destination
\* count D and offset o, apply has returned exactly one diagnostic,
\* IndexOutOfBounds(destination kind, D, a) with a = (D + o) mod 2^16, and the corrupted
\* field reads a.
C1_SingleIndexMutation ==
    (SingleApplied /\ PairOf(calls[1]) # RangePair) =>
        LET call == calls[1]
            D == kind_count(input, call.dst_kind)
            o == call.mutations[1].offset
            a == (D + o) % TableIndexModulus
        IN  /\ Len(results) = 1
            /\ results[1].kind = call.src_kind
            /\ results[1].err = IndexOutOfBounds(call.dst_kind, D, a)
            /\ FieldOf(module, call.src_kind, call.to_mutate[1], call.dst_kind) = a

\* a single mutation with a positive offset was applied to a signature token, and one
\* to a table wide enough for the sum to leave the index range
C1_Witness ==
    /\ SingleApplied
    /\ calls[1].src_kind = "FunctionSignature"
    /\ calls[1].mutations[1].offset > 0
    /\ Len(results) = 1

C1_WitnessWide ==
    /\ SingleApplied
    /\ PairOf(calls[1]) # RangePair
    /\ calls[1].dst_count + calls[1].mutations[1].offset > TableIndexMax

-----------------------------------------------------------------------------
(* C2 *)

\* the call resolved one of its mutations to a native struct definition
SkipsNative(call) ==
    /\ PairOf(call) = RangePair
    /\ \E k \in Applied(call) :
          At(call.before.struct_defs, call.to_mutate[k]).field_information.tag = "Native"

\* a group of K mutations of one pointer-model pair, K no larger than the source
\* population, none of them resolved to a native struct definition
C2_Case(call) ==
    /\ Len(call.mutations) <= Population(call.src_kind)
    /\ ~ SkipsNative(call)

\* C2: for the K mutations of a batch that share a (source kind, destination kind) pair,
\* with K <= source population and no native-struct skip, the K source indices resolved
\* in apply_one are pairwise distinct, each lies in [0, source population), and the group
\* yields exactly K diagnostics.
C2_DistinctSources ==
    \A c \in DOMAIN calls :
        C2_Case(calls[c]) =>
            LET call == calls[c]
                K == Len(call.mutations)
            IN  /\ Len(call.to_mutate) = K
                /\ \A k \in 1..K : call.to_mutate[k] \in 0..(Population(call.src_kind) - 1)
                /\ \A j, k \in 1..K : j # k => call.to_mutate[j] # call.to_mutate[k]
                /\ call.out.panic = ""
                /\ Len(call.out.errs) = K

\* two mutations of one pair whose selectors are equal were resolved (to two entries)
C2_Witness ==
    \E c \in DOMAIN calls :
        /\ C2_Case(calls[c])
        /\ Len(calls[c].mutations) = 2
        /\ calls[c].mutations[1].src_idx = calls[c].mutations[2].src_idx
        /\ Len(calls[c].out.errs) = 2

-----------------------------------------------------------------------------
(* C3 *)

\* the field information of the struct definition the k-th mutation of a call of the
\* range pair was resolved to, before the call
TargetInfo(call, k) == At(call.before.struct_defs, call.to_mutate[k]).field_information

\* C3 as stated: a StructDefinition -> FieldDefinition mutation resolved to a struct
\* definition with c declared fields, with FieldDefinition count D and offset o, leaves
\* the struct's range starting at D + o + 1 - c with the count c, and yields
\* RangeOutOfBounds(FieldDefinition, D, D + o + 1 - c, D + o + 1) at (StructDefinition,
\* resolved source index).
C3_AsStated ==
    \A n \in DOMAIN calls :
        PairOf(calls[n]) = RangePair =>
            \A k \in Applied(calls[n]) :
                TargetInfo(calls[n], k).tag = "Declared" =>
                    LET call == calls[n]
                        idx == call.to_mutate[k]
                        c == TargetInfo(call, k).field_count
                        D == kind_count(input, "FieldDefinition")
                        end == D + call.mutations[k].offset + 1
                    IN  /\ call.out.panic = ""
                        /\ At(call.out.module.struct_defs, idx).field_information
                              = Declared(c, end - c)
                        /\ \E e \in DOMAIN call.out.errs :
                              call.out.errs[e] =
                                  VerificationError("StructDefinition", idx,
                                      RangeOutOfBounds("FieldDefinition", D, end - c, end))

\* C3 where the range end D + o + 1 is representable as a table index: the statement of
\* C3 for every FieldDefinition count D and offset o with D + o + 1 <= 65535.
C3_RepresentableRange ==
    \A n \in DOMAIN calls :
        PairOf(calls[n]) = RangePair =>
            \A k \in Applied(calls[n]) :
                (/\ TargetInfo(calls[n], k).tag = "Declared"
                 /\ calls[n].dst_count + calls[n].mutations[k].offset + 1 <= TableIndexMax) =>
                    LET call == calls[n]
                        idx == call.to_mutate[k]
                        c == TargetInfo(call, k).field_count
                        D == kind_count(input, "FieldDefinition")
                        end == D + call.mutations[k].offset + 1
                    IN  /\ call.out.panic = ""
                        /\ At(call.out.module.struct_defs, idx).field_information
                              = Declared(c, end - c)
                        /\ \E e \in DOMAIN call.out.errs :
                              call.out.errs[e] =
                                  VerificationError("StructDefinition", idx,
                                      RangeOutOfBounds("FieldDefinition", D, end - c, end))

\* the example of the specification: range [1, 3), D = 3, o = 0 gives [2, 4)
C3_Example ==
    \E n \in DOMAIN calls :
        /\ PairOf(calls[n]) = RangePair
        /\ calls[n].dst_count = 3
        /\ calls[n].mutations[1].offset = 0
        /\ Len(calls[n].to_mutate) = 1
        /\ TargetInfo(calls[n], 1) = Declared(2, 1)
        /\ calls[n].out.panic = ""
        /\ calls[n].out.errs[1].err = RangeOutOfBounds("FieldDefinition", 3, 2, 4)

-----------------------------------------------------------------------------
(* C4 *)

\* the mutations of a call of the range pair that were resolved to a native struct
NativeTargets(call) == { k \in Applied(call) : TargetInfo(call, k).tag = "Native" }

\* C4: a StructDefinition -> FieldDefinition mutation resolved to a native struct
\* definition is skipped: the call does not panic, no diagnostic names that struct
\* definition, the struct definition is as before, a group whose mutations are all
\* skipped leaves the module as it was, and every other mutation of the group still
\* yields its diagnostic.
C4_NativeSkipped ==
    \A n \in DOMAIN calls :
        (PairOf(calls[n]) = RangePair /\ NativeTargets(calls[n]) # {}) =>
            LET call == calls[n]
                skipped == NativeTargets(call)
            IN  /\ call.out.panic = ""
                /\ \A k \in skipped :
                      /\ \A e \in DOMAIN call.out.errs :
                            call.out.errs[e].idx # call.to_mutate[k]
                      /\ At(call.out.module.struct_defs, call.to_mutate[k])
                            = At(call.before.struct_defs, call.to_mutate[k])
                /\ Len(call.out.errs) = Cardinality(Applied(call)) - Cardinality(skipped)
                /\ \A k \in Applied(call) \ skipped :
                      \E e \in DOMAIN call.out.errs :
                          /\ call.out.errs[e].idx = call.to_mutate[k]
                          /\ call.out.errs[e].err.tag = "RangeOutOfBounds"
                /\ skipped = Applied(call) => call.out.module = call.before

\* a group of two mutations of the range pair: one was skipped, the other was applied,
\* and apply has returned
C4_Witness ==
    /\ pc = "done"
    /\ \E n \in DOMAIN calls :
        /\ PairOf(calls[n]) = RangePair
        /\ Cardinality(NativeTargets(calls[n])) = 1
        /\ Len(calls[n].to_mutate) = 2
        /\ Len(calls[n].out.errs) = 1
        /\ results # << >>

-----------------------------------------------------------------------------
(* C5 *)

SignatureKinds == { "TypeSignature", "FunctionSignature", "LocalsSignature" }

\* the token a cache position of a signature kind names: the signature-table entry that
\* owns it, the list it is in and its position in that list
Named(kind, p) ==
    CASE kind = "TypeSignature" ->
            [sig |-> type_sig_structs[p + 1], list |-> "type", pos |-> 0]
      [] kind = "FunctionSignature" ->
            [sig |-> function_sig_structs[p + 1].sig,
             list |-> function_sig_structs[p + 1].tag,
             pos |-> function_sig_structs[p + 1].pos]
      [] kind = "LocalsSignature" ->
            [sig |-> locals_sig_structs[p + 1].sig, list |-> "locals",
             pos |-> locals_sig_structs[p + 1].pos]

\* the token lists of entry `sig` of the signature table of a kind
TokenLists(m, kind, sig) ==
    CASE kind = "TypeSignature" -> [type |-> << At(m.type_signatures, sig) >>]
      [] kind = "FunctionSignature" ->
            [ReturnType |-> At(m.function_signatures, sig).return_types,
             ArgType |-> At(m.function_signatures, sig).arg_types]
      [] kind = "LocalsSignature" -> [locals |-> At(m.locals_signatures, sig)]

SignatureTable(m, kind) ==
    CASE kind = "TypeSignature" -> m.type_signatures
      [] kind = "FunctionSignature" -> m.function_signatures
      [] kind = "LocalsSignature" -> m.locals_signatures

\* module m with the signature table of a kind replaced
WithSignatureTable(m, kind, table) ==
    CASE kind = "TypeSignature" -> [m EXCEPT !.type_signatures = table]
      [] kind = "FunctionSignature" -> [m EXCEPT !.function_signatures = table]
      [] kind = "LocalsSignature" -> [m EXCEPT !.locals_signatures = table]

\* C5: a mutation of a signature kind is resolved to a position of the cache built by
\* new; its diagnostic is reported at the index of the signature-table entry that owns
\* the token the cache entry names, with the written index as attempted index; of the
\* module, only the struct-handle references of the named tokens change; and the
\* function-signature cache lists every return-type token before any argument token.
C5_SignatureSources ==
    /\ \A i, j \in DOMAIN function_sig_structs :
          (i < j /\ function_sig_structs[j].tag = "ReturnType")
              => function_sig_structs[i].tag = "ReturnType"
    /\ \A n \in DOMAIN calls :
          calls[n].src_kind \in SignatureKinds /\ calls[n].dst_kind = "StructHandle" =>
            LET call == calls[n]
                kind == call.src_kind
                named(k) == Named(kind, call.to_mutate[k])
                before == SignatureTable(call.before, kind)
                after == SignatureTable(call.out.module, kind)
            IN  /\ call.out.panic = ""
                /\ Len(call.out.errs) = Cardinality(Applied(call))
                /\ \A k \in Applied(call) :
                      /\ call.to_mutate[k] \in 0..(Population(kind) - 1)
                      /\ call.out.errs[k].kind = kind
                      /\ call.out.errs[k].idx = named(k).sig
                      /\ call.out.errs[k].err.tag = "IndexOutOfBounds"
                      /\ TokenLists(call.out.module, kind, named(k).sig)
                            [named(k).list][named(k).pos + 1]
                         = debug_set_sh_idx(
                              TokenLists(call.before, kind, named(k).sig)
                                  [named(k).list][named(k).pos + 1],
                              call.out.errs[k].err.idx)
                /\ WithSignatureTable(call.out.module, kind, before) = call.before
                /\ after.len = before.len
                /\ \A sig \in DOMAIN after.at :
                      /\ sig \in DOMAIN before.at
                      /\ LET old == TokenLists(call.before, kind, sig)
                             new == TokenLists(call.out.module, kind, sig)
                         IN  /\ DOMAIN new = DOMAIN old
                             /\ \A list \in DOMAIN new :
                                   /\ Len(new[list]) = Len(old[list])
                                   /\ \A pos \in DOMAIN new[list] :
                                         new[list][pos] # old[list][pos] =>
                                            \E k \in Applied(call) :
                                                named(k) = [sig |-> sig, list |-> list,
                                                            pos |-> pos - 1]

\* a function-signature mutation was resolved to a cache position that differs from the
\* index of the signature owning the token, an argument token among them
C5_Witness ==
    \E n \in DOMAIN calls :
        /\ calls[n].src_kind = "FunctionSignature"
        /\ calls[n].out.panic = ""
        /\ \E k \in Applied(calls[n]) :
              /\ function_sig_structs[calls[n].to_mutate[k] + 1].tag = "ReturnType"
              /\ function_sig_structs[calls[n].to_mutate[k] + 1].sig # calls[n].to_mutate[k]
              /\ calls[n].out.errs[k].idx # calls[n].to_mutate[k]

-----------------------------------------------------------------------------
(* C6 *)

ValidPointerSources == { VALID_POINTER_SRCS[i] : i \in DOMAIN VALID_POINTER_SRCS }

\* C6: for every one of the 15 index kinds, pointers_from(kind) is non-empty if and
\* only if the kind is one of the nine entries of VALID_POINTER_SRCS (and the test
\* pointer_kind_sanity, once it has run, has passed).
C6_PointerSources ==
    /\ sanity.passed
    /\ Cardinality(IndexKind) = 15
    /\ Cardinality(ValidPointerSources) = 9
    /\ \A kind \in IndexKind :
          pointers_from(kind) # << >> <=> kind \in ValidPointerSources

\* the test has run over kinds with and without pointers out, and a mutation was
\* generated from a valid source and applied
C6_Witness ==
    /\ pc = "done"
    /\ \E kind \in sanity.checked : pointers_from(kind) # << >>
    /\ \E kind \in sanity.checked : pointers_from(kind) = << >>
    /\ \E n \in DOMAIN calls :
          /\ pointers_from(calls[n].src_kind) # << >>
          /\ calls[n].out.errs # << >>

-----------------------------------------------------------------------------
(* C7 *)

\* two tables hold the same entries
SameTable(s, t) ==
    /\ s.len = t.len
    /\ \A i \in (DOMAIN s.at) \cup (DOMAIN t.at) : At(s, i) = At(t, i)

\* two modules are equal in every table, pool and field
SameModule(m1, m2) ==
    /\ SameTable(m1.module_handles, m2.module_handles)
    /\ SameTable(m1.struct_handles, m2.struct_handles)
    /\ SameTable(m1.function_handles, m2.function_handles)
    /\ SameTable(m1.struct_defs, m2.struct_defs)
    /\ SameTable(m1.field_defs, m2.field_defs)
    /\ SameTable(m1.function_defs, m2.function_defs)
    /\ SameTable(m1.type_signatures, m2.type_signatures)
    /\ SameTable(m1.function_signatures, m2.function_signatures)
    /\ SameTable(m1.locals_signatures, m2.locals_signatures)
    /\ m1.string_pool = m2.string_pool
    /\ m1.byte_array_pool = m2.byte_array_pool
    /\ m1.address_pool = m2.address_pool

\* apply has returned and its batch was empty (it made no call of apply_one)
EmptyBatchApplied == pc = "done" /\ calls = << >>

\* C7: applying an empty batch returns a module equal to the input module in every
\* table and field, and an empty list of diagnostics.
C7_EmptyBatch == EmptyBatchApplied => SameModule(module, input) /\ results = << >>

\* an empty batch was applied to a module that has mutable entries
C7_Witness == EmptyBatchApplied /\ input.struct_defs.len > 0

-----------------------------------------------------------------------------
(* C8 *)

\* C8 as stated: apply never stops on an arithmetic overflow, and every applied mutation
\* writes a value that is invalid for the destination count D: an index pair writes
\* D + offset and reports it as the attempted index, the range pair leaves a range whose
\* end exceeds D and whose start is end - field count (not below 0).
C8_AsStated ==
    \A n \in DOMAIN calls :
        calls[n].out.panic # InvalidPointerKind /\ calls[n].out.panic # CountPanic =>
            LET call == calls[n]
                D == kind_count(input, call.dst_kind)
            IN  /\ call.out.panic = ""
                /\ \A e \in DOMAIN call.out.errs :
                      LET err == call.out.errs[e].err
                      IN  IF err.tag = "IndexOutOfBounds"
                          THEN /\ err.len = D
                               /\ err.idx >= D
                               /\ \E k \in Applied(call) :
                                     /\ err.idx = D + call.mutations[k].offset
                                     /\ FieldOf(call.out.module, call.src_kind,
                                                call.to_mutate[k], call.dst_kind) = err.idx
                          ELSE /\ err.len = D
                               /\ err.end > D
                               /\ err.start >= 0
                               /\ \E k \in Applied(call) :
                                     /\ err.end = D + call.mutations[k].offset + 1
                                     /\ err.start = err.end - TargetInfo(call, k).field_count
                                     /\ FieldOf(call.out.module, call.src_kind,
                                                call.to_mutate[k], call.dst_kind) = err.start

\* C8 for the destination counts whose attempted index is representable: with
\* D + offset + 1 <= 65535 the statement of C8 holds.
C8_Representable ==
    \A n \in DOMAIN calls :
        (/\ calls[n].out.panic # InvalidPointerKind
         /\ calls[n].out.panic # CountPanic
         /\ calls[n].dst_count + OffsetLimit <= TableIndexMax) =>
            LET call == calls[n]
                D == kind_count(input, call.dst_kind)
            IN  /\ call.out.panic = ""
                /\ \A e \in DOMAIN call.out.errs :
                      LET err == call.out.errs[e].err
                      IN  IF err.tag = "IndexOutOfBounds"
                          THEN err.len = D /\ err.idx >= D
                          ELSE err.len = D /\ err.end > D /\ err.start >= 0

-----------------------------------------------------------------------------
(* C9 *)

\* C9 as stated: IndexKind::variants() contains each of the 15 index kinds, so the
\* test pointer_kind_sanity, which iterates over it, has checked every kind once it
\* has run.
C9_AsStated ==
    pc # "test" =>
        /\ \A kind \in IndexKind : \E i \in DOMAIN variants : variants[i] = kind
        /\ sanity.checked = IndexKind

\* what holds of the list: it names 14 different index kinds and lacks ByteArrayPool
\* alone, which the test therefore never checks
C9_AllButByteArrayPool ==
    pc # "test" =>
        /\ Len(variants) = 14
        /\ sanity.checked = IndexKind \ { "ByteArrayPool" }

-----------------------------------------------------------------------------
(* C10 *)

\* every pair the generator can draw: a source of src_kind_strategy with the
\* destination dst_kind picks
GeneratedPairs ==
    { << src_kind, dst_kind_of(src_kind, dst_kind_idx) >> :
        src_kind \in src_kind_strategy, dst_kind_idx \in PropIndex }

\* whether a call of apply_one got as far as calling set_index
CalledSetIndex(call) ==
    /\ call.out.panic # CountPanic
    /\ Applied(call) # {}

\* set_index called on the current module for the first entry of a pair's source
FirstEntrySet(src_kind, dst_kind) ==
    set_index(module, Caches, TRUE, src_kind, 0, dst_kind, 0, 0)

\* C10: the fatal arm of set_index is unreachable for generated batches. Every pair
\* the generator can draw is a pair of the pointer model; the pairs with an arm in
\* set_index are exactly the 17 pairs of the pointer model; no call of apply_one over
\* a pair of the pointer model panics with "Invalid pointer kind"; and set_index
\* called with a pair outside the pointer model always panics with it.
C10_FatalArm ==
    /\ GeneratedPairs \subseteq PointerPairs
    /\ HandledPairs = PointerPairs
    /\ Cardinality(PointerPairs) = 17
    /\ \A n \in DOMAIN calls :
          /\ PairOf(calls[n]) \in PointerPairs =>
                calls[n].out.panic # InvalidPointerKind
          /\ PairOf(calls[n]) \notin PointerPairs /\ CalledSetIndex(calls[n]) =>
                calls[n].out.panic = InvalidPointerKind
    /\ pc = "constructed" =>
          \A src_kind \in IndexKind, dst_kind \in IndexKind :
              FirstEntrySet(src_kind, dst_kind).panic = InvalidPointerKind
                  <=> << src_kind, dst_kind >> \notin PointerPairs

\* a hand-built mutation of a pair outside the pointer model reached set_index, and
\* apply panicked in the fatal arm
C10_Witness ==
    /\ pc = "panicked"
    /\ panic = InvalidPointerKind
    /\ \E n \in DOMAIN calls :
          /\ PairOf(calls[n]) \notin PointerPairs
          /\ CalledSetIndex(calls[n])

\* a mutation of a pair of the pointer model went through set_index and was reported
C10_WitnessHandled ==
    /\ pc = "done"
    /\ \E n \in DOMAIN calls :
          /\ PairOf(calls[n]) \in GeneratedPairs
          /\ CalledSetIndex(calls[n])
          /\ calls[n].out.errs # << >>

-----------------------------------------------------------------------------
(* C11 *)

\* the table of a source kind in module m
TableOf(m, kind) ==
    CASE kind = "ModuleHandle" -> m.module_handles
      [] kind = "StructHandle" -> m.struct_handles
      [] kind = "FunctionHandle" -> m.function_handles
      [] kind = "StructDefinition" -> m.struct_defs
      [] kind = "FieldDefinition" -> m.field_defs
      [] kind = "FunctionDefinition" -> m.function_defs
      [] OTHER -> SignatureTable(m, kind)

\* the field of a source entry that the pair (src_kind, dst_kind) is about
FieldName(src_kind, dst_kind) ==
    CASE src_kind = "StructDefinition" /\ dst_kind = "StructHandle" -> "struct_handle"
      [] src_kind = "StructDefinition" /\ dst_kind = "FieldDefinition" -> "field_information"
      [] src_kind = "FieldDefinition" /\ dst_kind = "StructHandle" -> "struct_"
      [] src_kind = "FieldDefinition" /\ dst_kind = "TypeSignature" -> "signature"
      [] src_kind = "FunctionDefinition" /\ dst_kind = "FunctionHandle" -> "function"
      [] src_kind = "FunctionDefinition" /\ dst_kind = "LocalsSignature" -> "locals"
      [] src_kind = "FunctionHandle" /\ dst_kind = "FunctionSignature" -> "signature"
      [] dst_kind = "ModuleHandle" -> "module"
      [] dst_kind = "AddressPool" -> "address"
      [] dst_kind = "StringPool" -> "name"

\* the mutations of a call that set_index wrote: those zipped with a picked index,
\* but for the range pair those resolved to a native struct definition
Written(call) ==
    IF PairOf(call) = RangePair THEN Applied(call) \ NativeTargets(call) ELSE Applied(call)

\* every (call, mutation) that wrote
Writes == UNION { { << n, k >> : k \in Written(calls[n]) } : n \in DOMAIN calls }

\* where a write went: the table, the entry, the field (the token list of a signature)
\* and the position in the list
Place(w) ==
    LET call == calls[w[1]]
        at == call.to_mutate[w[2]]
    IN  IF call.src_kind \in SignatureKinds
        THEN [kind |-> call.src_kind, idx |-> Named(call.src_kind, at).sig,
              field |-> Named(call.src_kind, at).list,
              pos |-> Named(call.src_kind, at).pos]
        ELSE [kind |-> call.src_kind, idx |-> at,
              field |-> FieldName(call.src_kind, call.dst_kind), pos |-> 0]

Places == { Place(w) : w \in Writes }

\* the diagnostic a write returned: the errors of a call are in the order of its writes
DiagnosticOf(w) ==
    calls[w[1]].out.errs[Cardinality({ j \in Written(calls[w[1]]) : j <= w[2] })]

\* the index a diagnostic reports as written: the attempted index, or the range start
ReportedValue(diagnostic) ==
    IF diagnostic.err.tag = "IndexOutOfBounds"
    THEN diagnostic.err.idx
    ELSE diagnostic.err.start

\* entry i of a table of records is as in the input, but for the written fields (of a
\* written range, the field count is as in the input)
SameEntryElsewhere(kind, i) ==
    LET a == At(TableOf(input, kind), i)
        b == At(TableOf(module, kind), i)
    IN  /\ DOMAIN a = DOMAIN b
        /\ \A f \in DOMAIN a :
              IF [kind |-> kind, idx |-> i, field |-> f, pos |-> 0] \in Places
              THEN f = "field_information" =>
                      /\ b[f].tag = a[f].tag
                      /\ b[f].field_count = a[f].field_count
              ELSE b[f] = a[f]

\* entry i of a signature table is as in the input, but for the struct handles of the
\* written tokens
SameTokensElsewhere(kind, i) ==
    LET a == TokenLists(input, kind, i)
        b == TokenLists(module, kind, i)
    IN  \A list \in DOMAIN a :
          /\ Len(a[list]) = Len(b[list])
          /\ \A p \in DOMAIN a[list] :
                IF [kind |-> kind, idx |-> i, field |-> list, pos |-> p - 1] \in Places
                THEN /\ HasStructHandle(a[list][p])
                     /\ HasStructHandle(b[list][p])
                     /\ b[list][p] =
                           debug_set_sh_idx(a[list][p], TokenStructHandle(b[list][p]))
                ELSE b[list][p] = a[list][p]

\* a table of the module has the entry count of the input, and its entries are as in
\* the input but for what was written
SameTableElsewhere(kind) ==
    LET s == TableOf(input, kind)
        t == TableOf(module, kind)
    IN  /\ s.len = t.len
        /\ s.fill = t.fill
        /\ \A i \in (DOMAIN s.at) \cup (DOMAIN t.at) :
              IF kind \in SignatureKinds
              THEN SameTokensElsewhere(kind, i)
              ELSE SameEntryElsewhere(kind, i)

\* C11: after apply has returned, the module differs from the input module only in the
\* reference fields named by the returned diagnostics. The diagnostics are those of
\* the writes, one each, in order; every write went to its own field, at the entry and
\* under the kinds its diagnostic names, and that field holds in the final module the
\* value the diagnostic reports; every table has the entry count of the input, and
\* every other field of every entry, and every pool, is as in the input.
C11_Frame ==
    pc = "done" =>
        /\ results = Flatten([n \in DOMAIN calls |-> calls[n].out.errs])
        /\ \A n \in DOMAIN calls : Len(calls[n].out.errs) = Cardinality(Written(calls[n]))
        /\ \A w \in Writes :
              LET call == calls[w[1]]
                  diagnostic == DiagnosticOf(w)
              IN  /\ diagnostic.kind = Place(w).kind
                  /\ diagnostic.idx = Place(w).idx
                  /\ diagnostic.err.kind = call.dst_kind
                  /\ FieldOf(module, call.src_kind, call.to_mutate[w[2]], call.dst_kind)
                        = ReportedValue(diagnostic)
        /\ \A v, w \in Writes : v # w => Place(v) # Place(w)
        /\ \A kind \in ValidPointerSources : SameTableElsewhere(kind)
        /\ module.string_pool = input.string_pool
        /\ module.byte_array_pool = input.byte_array_pool
        /\ module.address_pool = input.address_pool

\* apply has returned after two mutations wrote two fields of one entry, and the other
\* entries of that table hold references
C11_Witness ==
    /\ pc = "done"
    /\ Len(results) = 2
    /\ \E v, w \in Writes :
          /\ v # w
          /\ Place(v).kind = Place(w).kind
          /\ Place(v).idx = Place(w).idx
          /\ TableOf(input, Place(v).kind).len > 1
    /\ ~ SameModule(module, input)

-----------------------------------------------------------------------------
(* C12 *)

\* the number of mutations of the batch apply took
BatchSize == Len(Flatten([n \in DOMAIN calls |-> calls[n].mutations]))

\* the entries of the source table that a call of apply_one changed
ChangedEntries(call) ==
    LET s == TableOf(call.before, call.src_kind)
        t == TableOf(call.out.module, call.src_kind)
    IN  { i \in (DOMAIN s.at) \cup (DOMAIN t.at) : At(s, i) # At(t, i) }

\* the group of a call is larger than the source population
Surplus(call) == Len(call.mutations) > Population(call.src_kind)

\* C12: a (source kind, destination kind) group of K mutations over a source population
\* P yields at most min(K, P) diagnostics. apply_one resolves min(K, P) indices, each
\* below P, and never indexes a table out of range; when K exceeds P (P = 0 included)
\* the call does not panic, the surplus mutations yield no diagnostic, and the module
\* changes in at most P entries of the source table and in no other table (with P = 0
\* it is as before). Hence apply returns no more diagnostics than the batch holds.
C12_SurplusDropped ==
    /\ \A n \in DOMAIN calls :
          LET call == calls[n]
              K == Len(call.mutations)
              P == Population(call.src_kind)
          IN  /\ call.src_count = P
              /\ Len(call.to_mutate) = Min(K, P)
              /\ \A k \in DOMAIN call.to_mutate : call.to_mutate[k] \in 0..(P - 1)
              /\ call.out.panic # IndexPanic
              /\ Surplus(call) =>
                    /\ call.out.panic = ""
                    /\ Len(call.out.errs) <= P
                    /\ Cardinality(ChangedEntries(call)) <= P
                    /\ \A kind \in ValidPointerSources \ { call.src_kind } :
                          TableOf(call.out.module, kind) = TableOf(call.before, kind)
                    /\ P = 0 => call.out.module = call.before /\ call.out.errs = << >>
              /\ call.out.panic = "" => Len(call.out.errs) <= Min(K, P)
    /\ pc = "done" => Len(results) <= BatchSize

\* apply has returned after a group of two mutations over a source population of one:
\* one mutation was applied and reported, the other was dropped
C12_Witness ==
    /\ pc = "done"
    /\ \E n \in DOMAIN calls :
          /\ Len(calls[n].mutations) = 2
          /\ Population(calls[n].src_kind) = 1
          /\ Len(calls[n].out.errs) = 1
          /\ Cardinality(ChangedEntries(calls[n])) = 1
    /\ Len(results) < BatchSize

\* apply has returned after a group over a signature kind whose table has entries, none
\* of which embeds a struct handle: nothing was applied
C12_WitnessNoStruct ==
    /\ pc = "done"
    /\ \E n \in DOMAIN calls :
          /\ calls[n].src_kind \in SignatureKinds
          /\ TableOf(input, calls[n].src_kind).len > 0
          /\ Population(calls[n].src_kind) = 0
          /\ Len(calls[n].mutations) = 2
    /\ results = << >>

====
